---- MODULE Spec2Model ----
(***************************************************************************)
(* Tick-data cleaning and OHLCV aggregation (src/main.py).                 *)
(*                                                                         *)
(* Text fields are sequences of one-character strings, so that parsing     *)
(* (datetime.strptime, float, int) and the ordering of strings (the sort   *)
(* key of aggregate_ohlcv) are computed, not assumed.                      *)
(***************************************************************************)
EXTENDS Integers, Sequences, FiniteSets, TLC

VARIABLES
    \* ---- clean_and_validate_row called on its own (SpecValidate)
    v_pc,               \* "call" | "returned"
    v_row,              \* the raw row passed in
    v_set,              \* unique_timestamps as passed in, then as left by the call
    v_set0,             \* unique_timestamps as it was when the call started
    v_result,           \* <<cleaned_row, errors>> returned
    \* ---- main and the pool workers (Spec)
    files,              \* file path -> [readable, rows]: what is on disk
    w_pc,               \* file path -> "queued" | "reading" | "done" | "failed"
    w_idx,              \* file path -> number of rows the worker has consumed
    unique_timestamps,  \* file path -> the set local to that process_file call
    results,            \* file path -> the list local to that process_file call
    all_results,        \* what pool.map returned to main
    main_pc,            \* where main is
    total_rows, valid_rows, invalid_rows, error_log, cleaned_data,
    interval, start_time, end_time,
    agg_calls,          \* number of times main has invoked aggregate_ohlcv
    csv_written,        \* the rows ohlcv_to_csv wrote, <<>> while no file exists
    \* ---- aggregate_ohlcv step by step (SpecAgg; shares cleaned_data, interval,
    \*      start_time, end_time with main, whose arguments they are)
    a_pc,               \* "idle" | "sort" | "loop" | "final" | "returned"
    a_input,            \* the data list as the caller passed it, before the sort
    a_i,                \* index of the next record of the for loop
    interval_start, current_ohlcv, ohlcv_data,
    \* ---- get_interval_input turn by turn (SpecInterval; the duration it
    \*      returns is interval)
    g_pc,               \* "idle" | "input" | "invalid" | "returned"
    g_interval_str      \* what was typed at the prompt

vars == <<v_pc, v_row, v_set, v_set0, v_result,
          files, w_pc, w_idx, unique_timestamps, results, all_results, main_pc,
          total_rows, valid_rows, invalid_rows, error_log, cleaned_data,
          interval, start_time, end_time, agg_calls, csv_written,
          a_pc, a_input, a_i, interval_start, current_ohlcv, ohlcv_data,
          g_pc, g_interval_str>>

validateVars == <<v_pc, v_row, v_set, v_set0, v_result>>
workerVars == <<files, w_pc, w_idx, unique_timestamps, results>>
mergeVars == <<all_results, total_rows, valid_rows, invalid_rows, error_log>>
inputVars == <<interval, start_time, end_time>>
aggVars == <<a_pc, a_input, a_i, interval_start, current_ohlcv, ohlcv_data>>
promptVars == <<g_pc, g_interval_str>>

(***************************************************************************)
(* Strings                                                                 *)
(***************************************************************************)
DigitChars == {"0", "1", "2", "3", "4", "5", "6", "7", "8", "9"}

DigitVal(c) ==
    CASE c = "0" -> 0 [] c = "1" -> 1 [] c = "2" -> 2 [] c = "3" -> 3
      [] c = "4" -> 4 [] c = "5" -> 5 [] c = "6" -> 6 [] c = "7" -> 7
      [] c = "8" -> 8 [] c = "9" -> 9

\* code point of a character (the characters the model's texts are made of)
ord(c) ==
    CASE c = " " -> 32 [] c = "+" -> 43 [] c = "-" -> 45 [] c = "." -> 46
      [] c \in DigitChars -> 48 + DigitVal(c)
      [] c = ":" -> 58
      [] c = "a" -> 97 [] c = "b" -> 98 [] c = "c" -> 99 [] c = "d" -> 100
      [] c = "f" -> 102 [] c = "h" -> 104 [] c = "i" -> 105 [] c = "m" -> 109
      [] c = "n" -> 110 [] c = "s" -> 115 [] c = "x" -> 120

\* str.__lt__: lexicographic by code point, a proper prefix is smaller
RECURSIVE str_lt(_, _)
str_lt(a, b) ==
    IF b = <<>> THEN FALSE
    ELSE IF a = <<>> THEN TRUE
    ELSE IF a[1] # b[1] THEN ord(a[1]) < ord(b[1])
    ELSE str_lt(Tail(a), Tail(b))

At(s, i) == IF i >= 1 /\ i <= Len(s) THEN s[i] ELSE ""

\* the longest run of decimal digits of s that starts at position i
RECURSIVE DigitRun(_, _)
DigitRun(s, i) ==
    IF At(s, i) \in DigitChars THEN <<s[i]>> \o DigitRun(s, i + 1) ELSE <<>>

\* the number of blanks of s from position i on (the \s+ of a format's blank)
RECURSIVE SpaceRun(_, _)
SpaceRun(s, i) == IF At(s, i) = " " THEN 1 + SpaceRun(s, i + 1) ELSE 0

RECURSIVE DecVal(_)
DecVal(ds) ==
    IF ds = <<>> THEN 0
    ELSE 10 * DecVal(SubSeq(ds, 1, Len(ds) - 1)) + DigitVal(ds[Len(ds)])

RECURSIVE Pow10(_)
Pow10(n) == IF n <= 0 THEN 1 ELSE 10 * Pow10(n - 1)

\* position of the first occurrence of character c in s, 0 when there is none
RECURSIVE IndexFrom(_, _, _)
IndexFrom(s, c, i) ==
    IF i > Len(s) THEN 0 ELSE IF s[i] = c THEN i ELSE IndexFrom(s, c, i + 1)

(***************************************************************************)
(* datetime and timedelta.  A datetime is its ordinal day, second of the   *)
(* day and microsecond; a timedelta is normalised as Python normalises it  *)
(* (0 <= seconds < 86400, 0 <= microseconds < 10^6, days carries the sign).*)
(***************************************************************************)
is_leap(y) == y % 4 = 0 /\ (y % 100 # 0 \/ y % 400 = 0)

days_in_month(y, m) ==
    IF m = 2 THEN (IF is_leap(y) THEN 29 ELSE 28)
    ELSE IF m \in {4, 6, 9, 11} THEN 30 ELSE 31

RECURSIVE days_before_month(_, _)
days_before_month(y, m) ==
    IF m <= 1 THEN 0 ELSE days_before_month(y, m - 1) + days_in_month(y, m - 1)

ymd2ord(y, m, d) ==
    LET p == y - 1
    IN  p * 365 + (p \div 4) - (p \div 100) + (p \div 400)
        + days_before_month(y, m) + d

timedelta(d, h, m, s) ==
    LET total == h * 3600 + m * 60 + s
    IN  [days |-> d + (total \div 86400), seconds |-> total % 86400,
         microseconds |-> 0]

td_zero == timedelta(0, 0, 0, 0)

\* datetime.__lt__ / __le__: by (date, time of day, microsecond)
dt_lt(a, b) ==
    \/ a.days < b.days
    \/ a.days = b.days /\ a.seconds < b.seconds
    \/ a.days = b.days /\ a.seconds = b.seconds /\ a.microseconds < b.microseconds

dt_le(a, b) == a = b \/ dt_lt(a, b)

\* datetime + timedelta
dt_add(t, delta) ==
    LET us == t.microseconds + delta.microseconds
        s  == t.seconds + delta.seconds + (us \div 1000000)
    IN  [days |-> t.days + delta.days + (s \div 86400), seconds |-> s % 86400,
         microseconds |-> us % 1000000]

\* the two formats the program parses with
FMT_TICK == "%Y-%m-%d %H:%M:%S.%f"
FMT_INPUT == "%Y-%m-%d %H:%M:%S"

NoDateTime == [days |-> 0, seconds |-> 0, microseconds |-> 0]

\* The text cut into its pieces: each run of decimal digits is one piece,
\* each run of blanks the piece <<" ">>, every other character a piece of
\* its own.
RECURSIVE pieces(_, _)
pieces(s, i) ==
    IF i > Len(s) THEN <<>>
    ELSE IF s[i] \in DigitChars
    THEN <<DigitRun(s, i)>> \o pieces(s, i + Len(DigitRun(s, i)))
    ELSE IF s[i] = " "
    THEN <<<<" ">>>> \o pieces(s, i + SpaceRun(s, i))
    ELSE <<<<s[i]>>>> \o pieces(s, i + 1)

\* piece i of pc is a number of lo to hi digits
is_number(pc, i, lo, hi) ==
    /\ i <= Len(pc) /\ pc[i][1] \in DigitChars
    /\ Len(pc[i]) >= lo /\ Len(pc[i]) <= hi

\* the pieces are those of  %Y-%m-%d %H:%M:%S  followed, in the tick format,
\* by  .%f : %Y four digits, %m %d %H %M %S one or two, %f one to six
strptime_shape(pc, fmt) ==
    /\ Len(pc) = (IF fmt = FMT_TICK THEN 13 ELSE 11)
    /\ is_number(pc, 1, 4, 4) /\ pc[2] = <<"-">>
    /\ is_number(pc, 3, 1, 2) /\ pc[4] = <<"-">>
    /\ is_number(pc, 5, 1, 2) /\ pc[6] = <<" ">>
    /\ is_number(pc, 7, 1, 2) /\ pc[8] = <<":">>
    /\ is_number(pc, 9, 1, 2) /\ pc[10] = <<":">>
    /\ is_number(pc, 11, 1, 2)
    /\ fmt = FMT_TICK => pc[12] = <<".">> /\ is_number(pc, 13, 1, 6)

\* the fields are a date and a time of day
strptime_range(y, mo, d, h, mi, sec) ==
    /\ y >= 1
    /\ mo >= 1 /\ mo <= 12
    /\ d >= 1 /\ d <= days_in_month(y, mo)
    /\ h >= 0 /\ h <= 23 /\ mi >= 0 /\ mi <= 59 /\ sec >= 0 /\ sec <= 59

strptime_fields(y, mo, d, h, mi, sec, us) ==
    IF strptime_range(y, mo, d, h, mi, sec)
    THEN [ok |-> TRUE,
          v |-> [days |-> ymd2ord(y, mo, d),
                 seconds |-> h * 3600 + mi * 60 + sec,
                 microseconds |-> us]]
    ELSE [ok |-> FALSE, v |-> NoDateTime]

strptime_pieces(pc, fmt) ==
    IF strptime_shape(pc, fmt)
    THEN strptime_fields(DecVal(pc[1]), DecVal(pc[3]), DecVal(pc[5]),
                         DecVal(pc[7]), DecVal(pc[9]), DecVal(pc[11]),
                         IF fmt = FMT_TICK
                         THEN DecVal(pc[13]) * Pow10(6 - Len(pc[13])) ELSE 0)
    ELSE [ok |-> FALSE, v |-> NoDateTime]

\* datetime.strptime(s, fmt) for the two formats above: ok = FALSE is
\* ValueError.  Each field is matched as strptime's pattern matches it: the
\* numbers need no leading zero, %f is read as a decimal fraction of a
\* second, a blank of the format matches one or more blanks.
strptime(s, fmt) == strptime_pieces(pieces(s, 1), fmt)

(***************************************************************************)
(* float and int.  A float is a number of hundredths, or nan, or an        *)
(* infinity; every comparison with nan is false, as in IEEE 754.           *)
(***************************************************************************)
Fin(n) == [k |-> "fin", v |-> n]
NaN    == [k |-> "nan", v |-> 0]
PosInf == [k |-> "inf", v |-> 1]
NegInf == [k |-> "inf", v |-> -1]

f_lt(a, b) ==
    /\ a.k # "nan" /\ b.k # "nan"
    /\ \/ a.k = "fin" /\ b.k = "fin" /\ a.v < b.v
       \/ a.k = "fin" /\ b = PosInf
       \/ a = NegInf /\ b.k = "fin"
       \/ a = NegInf /\ b = PosInf

f_le(a, b) == a.k # "nan" /\ b.k # "nan" /\ (a = b \/ f_lt(a, b))

\* builtin max(a, b) / min(a, b): the second argument wins only when it
\* compares greater (smaller) than the first
py_max(a, b) == IF f_lt(a, b) THEN b ELSE a
py_min(a, b) == IF f_lt(b, a) THEN b ELSE a

RECURSIVE lstrip(_)
lstrip(s) == IF s # <<>> /\ s[1] = " " THEN lstrip(Tail(s)) ELSE s

RECURSIVE rstrip(_)
rstrip(s) ==
    IF s # <<>> /\ s[Len(s)] = " " THEN rstrip(SubSeq(s, 1, Len(s) - 1)) ELSE s

\* str.strip()
strip(s) == rstrip(lstrip(s))

\* the pieces after an optional sign
unsigned(pc) ==
    IF pc # <<>> /\ pc[1] \in {<<"-">>, <<"+">>} THEN Tail(pc) ELSE pc

is_negative(pc) == pc # <<>> /\ pc[1] = <<"-">>

\* digits, digits. , digits.digits or .digits, with at most two digits after
\* the point (the model counts in hundredths); nan; inf
float_unsigned(pc, neg) ==
    LET sign == IF neg THEN -1 ELSE 1
    IN  IF pc = <<<<"n">>, <<"a">>, <<"n">>>> THEN [ok |-> TRUE, v |-> NaN]
        ELSE IF pc = <<<<"i">>, <<"n">>, <<"f">>>>
        THEN [ok |-> TRUE, v |-> IF neg THEN NegInf ELSE PosInf]
        ELSE IF Len(pc) = 1 /\ is_number(pc, 1, 1, 9)
        THEN [ok |-> TRUE, v |-> Fin(sign * DecVal(pc[1]) * 100)]
        ELSE IF Len(pc) = 2 /\ is_number(pc, 1, 1, 9) /\ pc[2] = <<".">>
        THEN [ok |-> TRUE, v |-> Fin(sign * DecVal(pc[1]) * 100)]
        ELSE IF Len(pc) = 2 /\ pc[1] = <<".">> /\ is_number(pc, 2, 1, 2)
        THEN [ok |-> TRUE,
              v |-> Fin(sign * DecVal(pc[2]) * Pow10(2 - Len(pc[2])))]
        ELSE IF /\ Len(pc) = 3 /\ is_number(pc, 1, 1, 9) /\ pc[2] = <<".">>
                /\ is_number(pc, 3, 1, 2)
        THEN [ok |-> TRUE,
              v |-> Fin(sign * (DecVal(pc[1]) * 100
                                + DecVal(pc[3]) * Pow10(2 - Len(pc[3]))))]
        ELSE [ok |-> FALSE, v |-> NaN]

\* float(s): ok = FALSE is ValueError; blanks around the number are dropped
float(s) ==
    float_unsigned(unsigned(pieces(strip(s), 1)), is_negative(pieces(strip(s), 1)))

int_unsigned(pc, neg) ==
    IF Len(pc) = 1 /\ is_number(pc, 1, 1, 9)
    THEN [ok |-> TRUE, v |-> IF neg THEN -DecVal(pc[1]) ELSE DecVal(pc[1])]
    ELSE [ok |-> FALSE, v |-> 0]

\* int(s): ok = FALSE is ValueError.  sign? digits, blanks around them dropped
int(s) ==
    int_unsigned(unsigned(pieces(strip(s), 1)), is_negative(pieces(strip(s), 1)))

(***************************************************************************)
(* Texts the model's rows and prompts are made of                          *)
(***************************************************************************)
DATE_PAD == <<"2", "0", "2", "4", "-", "0", "1", "-", "0", "1", " ">>
DATE_BARE == <<"2", "0", "2", "4", "-", "1", "-", "0", "1", " ">>
US_ZERO == <<".", "0", "0", "0", "0", "0", "0">>

HMS_093000 == <<"0", "9", ":", "3", "0", ":", "0", "0">>
HMS_093005 == <<"0", "9", ":", "3", "0", ":", "0", "5">>
HMS_093050 == <<"0", "9", ":", "3", "0", ":", "5", "0">>
HMS_093110 == <<"0", "9", ":", "3", "1", ":", "1", "0">>
HMS_093200 == <<"0", "9", ":", "3", "2", ":", "0", "0">>
HMS_093300 == <<"0", "9", ":", "3", "3", ":", "0", "0">>

TS_EMPTY == <<>>
\* "2024-01-01 09:30:05": no fraction, not in the tick format
TS_NOFRAC == DATE_PAD \o HMS_093005
\* "2024-01-01 09:30:05.000000" and its neighbours
TS_093005 == DATE_PAD \o HMS_093005 \o US_ZERO
TS_093050 == DATE_PAD \o HMS_093050 \o US_ZERO
TS_093110 == DATE_PAD \o HMS_093110 \o US_ZERO
TS_093200 == DATE_PAD \o HMS_093200 \o US_ZERO
TS_093300 == DATE_PAD \o HMS_093300 \o US_ZERO
\* "2024-01-01 09:30:05.0": the instant of TS_093005 written with one digit
TS_093005_SHORT == DATE_PAD \o HMS_093005 \o <<".", "0">>
\* "2024-1-01 09:30:00.000000": month without its leading zero
TS_093000_BARE == DATE_BARE \o HMS_093000 \o US_ZERO

\* what the start / end prompts may be answered with
IN_093000 == DATE_PAD \o HMS_093000
IN_093200 == DATE_PAD \o HMS_093200
IN_BAD == <<"x">>

P_EMPTY == <<>>
P_ABC == <<"a", "b", "c">>
P_NAN == <<"n", "a", "n">>
P_INF == <<"i", "n", "f">>
P_NEG5 == <<"-", "5">>
P_0 == <<"0">>
P_99_99 == <<"9", "9", ".", "9", "9">>
P_100 == <<"1", "0", "0">>
P_100_0 == <<"1", "0", "0", ".", "0">>
P_102 == <<"1", "0", "2">>
P_105 == <<"1", "0", "5">>
P_150_25 == <<"1", "5", "0", ".", "2", "5">>
P_151_00 == <<"1", "5", "1", ".", "0", "0">>

S_EMPTY == <<>>
S_1_5 == <<"1", ".", "5">>
S_NEG1 == <<"-", "1">>
S_0 == <<"0">>
S_1 == <<"1">>
S_2 == <<"2">>
S_3 == <<"3">>
S_5 == <<"5">>
S_10 == <<"1", "0">>

(***************************************************************************)
(* clean_and_validate_row                                                  *)
(***************************************************************************)
None == <<>>

E_COLUMNS == "Incorrect number of columns"
E_MISSING_TS == "Missing timestamp"
E_TS_FORMAT == "Invalid timestamp format"
E_DUPLICATE == "Duplicate timestamp"
E_PRICE_VALUE == "Invalid price value"
E_PRICE_POSITIVE == "Price must be positive"
E_PRICE_LOW == "Price too low (below 100)"
E_SIZE_VALUE == "Invalid size value"
E_SIZE_NEGATIVE == "Size must be non-negative"

PRICE_FLOOR == 100

\* a float literal of the source, in the model's hundredths
lit(n) == Fin(n * 100)

\* lines 80-88, on what int(size) gave
size_checks(timestamp, price, parsed) ==
    IF ~parsed.ok THEN <<None, <<E_SIZE_VALUE>>>>
    ELSE IF parsed.v < 0 THEN <<None, <<E_SIZE_NEGATIVE>>>>
    ELSE <<<<timestamp, price, parsed.v>>, <<>>>>

\* lines 78-88: the size checks and the successful return
validate_size(timestamp, price, size) == size_checks(timestamp, price, int(size))

\* price_checks with the floor test placed before the sign test
price_checks_floor_first(timestamp, parsed, size) ==
    IF ~parsed.ok THEN <<None, <<E_PRICE_VALUE>>>>
    ELSE IF f_lt(parsed.v, lit(PRICE_FLOOR)) THEN <<None, <<E_PRICE_LOW>>>>
    ELSE IF f_le(parsed.v, lit(0)) THEN <<None, <<E_PRICE_POSITIVE>>>>
    ELSE validate_size(timestamp, parsed.v, size)

\* price_checks with the return after "Price must be positive" left out
price_checks_no_return(timestamp, parsed, size) ==
    IF ~parsed.ok THEN <<None, <<E_PRICE_VALUE>>>>
    ELSE IF f_le(parsed.v, lit(0)) /\ f_lt(parsed.v, lit(PRICE_FLOOR))
    THEN <<None, <<E_PRICE_POSITIVE, E_PRICE_LOW>>>>
    ELSE IF f_le(parsed.v, lit(0)) THEN <<None, <<E_PRICE_POSITIVE>>>>
    ELSE IF f_lt(parsed.v, lit(PRICE_FLOOR)) THEN <<None, <<E_PRICE_LOW>>>>
    ELSE validate_size(timestamp, parsed.v, size)

\* lines 63-76, on what float(price) gave
price_checks(timestamp, parsed, size) ==
    IF ~parsed.ok THEN <<None, <<E_PRICE_VALUE>>>>
    ELSE IF f_le(parsed.v, lit(0)) THEN <<None, <<E_PRICE_POSITIVE>>>>
    ELSE IF f_lt(parsed.v, lit(PRICE_FLOOR)) THEN <<None, <<E_PRICE_LOW>>>>
    ELSE validate_size(timestamp, parsed.v, size)

\* lines 61-76: the price checks
validate_price(timestamp, price, size) ==
    price_checks(timestamp, float(price), size)

\* line 56 left out: the timestamp is never remembered
add_timestamp_forgotten(seen, timestamp) == seen

\* line 56: unique_timestamps.add(timestamp)
add_timestamp(seen, timestamp) == seen \cup {timestamp}

\* validate_fields remembering the timestamp only of a row it accepts
validate_fields_add_on_success(timestamp, price, size, seen) ==
    IF timestamp = <<>>
    THEN [ret |-> <<None, <<E_MISSING_TS>>>>, seen |-> seen]
    ELSE IF ~strptime(timestamp, FMT_TICK).ok
    THEN [ret |-> <<None, <<E_TS_FORMAT>>>>, seen |-> seen]
    ELSE IF timestamp \in seen
    THEN [ret |-> <<None, <<E_DUPLICATE>>>>, seen |-> seen]
    ELSE [ret |-> validate_price(timestamp, price, size),
          seen |-> IF validate_price(timestamp, price, size)[1] # None
                   THEN add_timestamp(seen, timestamp) ELSE seen]

\* lines 41-88, after the row is unpacked
validate_fields(timestamp, price, size, seen) ==
    IF timestamp = <<>>
    THEN [ret |-> <<None, <<E_MISSING_TS>>>>, seen |-> seen]
    ELSE IF ~strptime(timestamp, FMT_TICK).ok
    THEN [ret |-> <<None, <<E_TS_FORMAT>>>>, seen |-> seen]
    ELSE IF timestamp \in seen
    THEN [ret |-> <<None, <<E_DUPLICATE>>>>, seen |-> seen]
    ELSE [ret |-> validate_price(timestamp, price, size),
          seen |-> add_timestamp(seen, timestamp)]

\* lines 33-88.  ret is the returned pair (cleaned_row, errors); seen is
\* unique_timestamps as the call leaves it.
clean_and_validate_row(row, seen) ==
    IF Len(row) # 3
    THEN [ret |-> <<None, <<E_COLUMNS>>>>, seen |-> seen]
    ELSE validate_fields(row[1], row[2], row[3], seen)

(***************************************************************************)
(* parse_interval and the prompts                                          *)
(***************************************************************************)
I_1M == <<"1", "m">>
I_0S == <<"0", "s">>
I_NEG1M == <<"-", "1", "m">>
I_2H30M == <<"2", "h", "3", "0", "m">>
I_ABC == <<"a", "b", "c">>
I_XM == <<"x", "m">>
I_1M_UPPER == <<" ", "1", "M">>

lower_char(c) ==
    CASE c = "D" -> "d" [] c = "H" -> "h" [] c = "M" -> "m" [] c = "S" -> "s"
      [] OTHER -> c

\* str.lower()
lower(s) == [i \in 1..Len(s) |-> lower_char(s[i])]

\* parts[1] of s.split(unit) when the unit letter is at position i: the text
\* between that occurrence and the next one
second_part(after, j) == IF j = 0 THEN after ELSE SubSeq(after, 1, j - 1)

\* one "if unit in interval_str:" block of parse_interval, the unit letter
\* being at position i (0: it is not there): the number before it (ok = FALSE
\* when int() raises ValueError) and the text the next block goes on with
unit_block_at(s, unit, i) ==
    IF i = 0
    THEN [ok |-> TRUE, v |-> 0, rest |-> s]
    ELSE [ok |-> int(SubSeq(s, 1, i - 1)).ok,
          v |-> int(SubSeq(s, 1, i - 1)).v,
          rest |-> second_part(SubSeq(s, i + 1, Len(s)),
                               IndexFrom(SubSeq(s, i + 1, Len(s)), unit, 1))]

unit_block(s, unit) == unit_block_at(s, unit, IndexFrom(s, unit, 1))

\* line 109, when no int() raised
interval_of(d, h, m, s) ==
    [ok |-> d.ok /\ h.ok /\ m.ok /\ s.ok, v |-> timedelta(d.v, h.v, m.v, s.v)]

\* lines 102-109
parse_from_minutes(d, h, m) == interval_of(d, h, m, unit_block(m.rest, "s"))

\* lines 98-109
parse_from_hours(d, h) == parse_from_minutes(d, h, unit_block(h.rest, "m"))

\* lines 94-109
parse_from_days(d) == parse_from_hours(d, unit_block(d.rest, "h"))

\* lines 91-109: ok = FALSE is the ValueError of an int() that fails
parse_interval(interval_str) == parse_from_days(unit_block(interval_str, "d"))

\* lines 197-201, on what parse_interval gave
interval_checked(parsed) ==
    [ok |-> parsed.ok /\ parsed.v # td_zero, v |-> parsed.v]

\* lines 192-203: one turn of the loop of get_interval_input on what was
\* typed; ok = FALSE is "Invalid interval format. Please try again."
get_interval_input(typed) ==
    interval_checked(parse_interval(lower(strip(typed))))

\* lines 207-212: one turn of the loop of get_datetime_input
get_datetime_input(typed) == strptime(strip(typed), FMT_INPUT)

\* start_time > end_time in the place of start_time >= end_time
window_rejected_strict(start, end) == dt_lt(end, start)

\* line 258: start_time >= end_time
window_rejected(start, end) == dt_le(end, start)

(***************************************************************************)
(* aggregate_ohlcv                                                         *)
(***************************************************************************)
\* None in the place of a float
NoneF == [k |-> "none", v |-> 0]

\* lines 114-115 and 134-135
EmptyBar ==
    [open |-> NoneF, high |-> NegInf, low |-> PosInf, close |-> NoneF,
     volume |-> 0]

\* ohlcv_data[key] = bar on a dict that keeps insertion order: an existing key
\* keeps its place and takes the new value
dict_set(d, key, bar) ==
    IF \E i \in 1..Len(d) : d[i][1] = key
    THEN [i \in 1..Len(d) |-> IF d[i][1] = key THEN <<key, bar>> ELSE d[i]]
    ELSE Append(d, <<key, bar>>)

\* insertion of x before the elements whose key is equal (a sort that turns
\* the order of equal keys round)
RECURSIVE insert_sorted_before_equal(_, _)
insert_sorted_before_equal(sorted, x) ==
    IF sorted = <<>> THEN <<x>>
    ELSE IF ~str_lt(sorted[Len(sorted)][1], x[1])
    THEN Append(insert_sorted_before_equal(SubSeq(sorted, 1, Len(sorted) - 1), x),
                sorted[Len(sorted)])
    ELSE Append(sorted, x)

\* insertion of x after the last element whose key is not greater
RECURSIVE insert_sorted(_, _)
insert_sorted(sorted, x) ==
    IF sorted = <<>> THEN <<x>>
    ELSE IF str_lt(x[1], sorted[Len(sorted)][1])
    THEN Append(insert_sorted(SubSeq(sorted, 1, Len(sorted) - 1), x),
                sorted[Len(sorted)])
    ELSE Append(sorted, x)

\* line 118: data.sort(key=lambda x: x[0]), a stable sort on the timestamp text
RECURSIVE sort_by_timestamp(_)
sort_by_timestamp(data) ==
    IF data = <<>> THEN <<>>
    ELSE insert_sorted(sort_by_timestamp(SubSeq(data, 1, Len(data) - 1)),
                       data[Len(data)])

\* lines 137-142: the open bar takes the record
bar_update(bar, price, size) ==
    [open |-> IF bar.open = NoneF THEN price ELSE bar.open,
     high |-> py_max(bar.high, price),
     low |-> py_min(bar.low, price),
     close |-> price,
     volume |-> bar.volume + size]

\* lines 129-142, interval_start being set (opened): the interval is sealed
\* and a new one started when the record is at or after its end
seal_and_update(st, opened, timestamp, price, size, delta) ==
    IF dt_le(dt_add(opened, delta), timestamp)
    THEN [interval_start |-> timestamp,
          ohlcv_data |-> dict_set(st.ohlcv_data, opened, st.current_ohlcv),
          current_ohlcv |-> bar_update(EmptyBar, price, size)]
    ELSE [interval_start |-> opened,
          ohlcv_data |-> st.ohlcv_data,
          current_ohlcv |-> bar_update(st.current_ohlcv, price, size)]

\* lines 123-142, the timestamp being parsed
loop_body_at(st, timestamp, price, size, delta, start, end) ==
    IF dt_lt(timestamp, start) \/ dt_lt(end, timestamp)
    THEN st
    ELSE seal_and_update(st,
                         IF st.interval_start = NoDateTime
                         THEN timestamp ELSE st.interval_start,
                         timestamp, price, size, delta)

\* lines 120-142: one turn of the for loop on record rec; st holds
\* interval_start, current_ohlcv and ohlcv_data
loop_body(st, rec, delta, start, end) ==
    loop_body_at(st, strptime(rec[1], FMT_TICK).v, rec[2], rec[3], delta,
                 start, end)

\* the last interval saved whether it has received a record or not
final_table_always(st) ==
    dict_set(st.ohlcv_data, st.interval_start, st.current_ohlcv)

\* lines 174-178: the last interval is saved when it has received a record
final_table(st) ==
    IF st.current_ohlcv.open # NoneF
    THEN dict_set(st.ohlcv_data, st.interval_start, st.current_ohlcv)
    ELSE st.ohlcv_data

\* lines 112-115
loop_start ==
    [interval_start |-> NoDateTime, current_ohlcv |-> EmptyBar,
     ohlcv_data |-> <<>>]

RECURSIVE loop_over(_, _, _, _, _)
loop_over(st, data, delta, start, end) ==
    IF data = <<>> THEN st
    ELSE loop_over(loop_body(st, Head(data), delta, start, end), Tail(data),
                   delta, start, end)

\* lines 111-178 as one call: the table returned, and the caller's list as the
\* in-place sort leaves it
aggregate_sorted(sorted, delta, start, end) ==
    [data |-> sorted,
     ohlcv_data |-> final_table(loop_over(loop_start, sorted, delta, start, end))]

aggregate_ohlcv(data, delta, start, end) ==
    aggregate_sorted(sort_by_timestamp(data), delta, start, end)

(***************************************************************************)
(* process_file, the pool and main                                         *)
(***************************************************************************)
\* line 217: the files find_csv_files discovered, in the order it yields them
csv_files == <<"ctg_tick_1.csv", "ctg_tick_2.csv">>

Files == {csv_files[i] : i \in 1..Len(csv_files)}

\* a module-level set that every call goes on with, in the place of line 24
shared_timestamps(sets) == UNION {sets[g] : g \in DOMAIN sets}

\* line 24: unique_timestamps = set(), whatever the sets of the other calls
fresh_timestamps(sets) == {}

\* process_row keeping the triples of the accepted rows only
process_row_valid_only(st, row) ==
    LET out == clean_and_validate_row(row, st.unique_timestamps)
    IN  [unique_timestamps |-> out.seen,
         results |-> IF out.ret[1] # None
                     THEN Append(st.results, <<out.ret[1], out.ret[2], row>>)
                     ELSE st.results]

\* lines 26-28: the body of the loop of process_file on one row; st holds the
\* call's unique_timestamps and results
process_row(st, row) ==
    LET out == clean_and_validate_row(row, st.unique_timestamps)
    IN  [unique_timestamps |-> out.seen,
         results |-> Append(st.results, <<out.ret[1], out.ret[2], row>>)]

\* lines 232-239: the merge of one row's triple into main's accumulators
merge_row(acc, triple) ==
    LET cleaned_row == triple[1]
        errors == triple[2]
        original_row == triple[3]
    IN  IF cleaned_row # None
        THEN [acc EXCEPT !.total_rows = @ + 1, !.valid_rows = @ + 1,
                         !.cleaned_data = Append(@, cleaned_row)]
        ELSE [acc EXCEPT !.total_rows = @ + 1, !.invalid_rows = @ + 1,
                         !.error_log = Append(@, <<original_row, errors>>)]

RECURSIVE merge_file(_, _)
merge_file(acc, file_results) ==
    IF file_results = <<>> THEN acc
    ELSE merge_file(merge_row(acc, Head(file_results)), Tail(file_results))

\* lines 223-239
RECURSIVE merge(_, _)
merge(acc, per_file) ==
    IF per_file = <<>> THEN acc
    ELSE merge(merge_file(acc, Head(per_file)), Tail(per_file))

merge_start ==
    [total_rows |-> 0, valid_rows |-> 0, invalid_rows |-> 0,
     error_log |-> <<>>, cleaned_data |-> <<>>]

\* lines 183-187: the header and one row per entry of the table, in the
\* table's order (the values are kept as values, not as their text)
CSV_HEADER == <<"Interval Start", "Open", "High", "Low", "Close", "Volume">>

ohlcv_to_csv(table) ==
    <<CSV_HEADER>> \o
    [i \in 1..Len(table) |->
        <<table[i][1], table[i][2].open, table[i][2].high, table[i][2].low,
          table[i][2].close, table[i][2].volume>>]

(***************************************************************************)
(* Bounds and the inputs drawn                                             *)
(***************************************************************************)
MaxRows == 2
MaxData == 3
MaxIntervalLen == 3

SeqsUpTo(S, n) == UNION {[1..k -> S] : k \in 0..n}

\* the lists of up to n elements of S in which no element stands twice
DistinctSeqsUpTo(S, n) ==
    {q \in SeqsUpTo(S, n) : \A i, j \in 1..Len(q) : q[i] = q[j] => i = j}

\* the data rows a file may hold (its header row is not counted)
FileRows ==
    { <<TS_093005, P_150_25, S_10>>,
      <<TS_093005, P_151_00, S_5>>,
      <<TS_093005, P_ABC, S_5>>,
      <<TS_093005_SHORT, P_105, S_2>> }

\* a file that cannot be opened, or a file and its data rows; the rows of a
\* file differ from each other, and three of FileRows share one timestamp
FileContents ==
    {[readable |-> FALSE, rows |-> <<>>]}
    \cup {[readable |-> TRUE, rows |-> r] :
             r \in DistinctSeqsUpTo(FileRows, MaxRows)}

IntervalTexts == {I_1M, I_0S, I_NEG1M}
DateTexts == {IN_093000, IN_093200, IN_BAD}

(***************************************************************************)
(* SpecValidate: one call of clean_and_validate_row, on any row and any    *)
(* duplicate set a file pass can have built                                *)
(***************************************************************************)
ValTimestamps ==
    {TS_EMPTY, TS_NOFRAC, TS_093005, TS_093005_SHORT, TS_093050, TS_093000_BARE}
ValPrices ==
    {P_EMPTY, P_ABC, P_NAN, P_INF, P_NEG5, P_0, P_99_99, P_100, P_100_0, P_150_25}
ValSizes == {S_EMPTY, S_1_5, S_NEG1, S_0, S_10}

ValRows ==
    {<<t, p, s>> : t \in ValTimestamps, p \in ValPrices, s \in ValSizes}
    \cup {<<TS_093005, P_150_25>>, <<TS_093005, P_150_25, S_10, S_10>>}

\* only texts that parse are ever added to a duplicate set
ValSeen == {t \in ValTimestamps : t # <<>> /\ strptime(t, FMT_TICK).ok}

\* the values the variables of the other specifications rest at
IdleValidate ==
    /\ v_pc = "idle" /\ v_row = <<>> /\ v_set = {} /\ v_set0 = {}
    /\ v_result = <<None, <<>>>>

IdleWorkers ==
    /\ files = <<>> /\ w_pc = <<>> /\ w_idx = <<>>
    /\ unique_timestamps = <<>> /\ results = <<>>

IdleMain ==
    /\ main_pc = "idle" /\ all_results = <<>>
    /\ total_rows = 0 /\ valid_rows = 0 /\ invalid_rows = 0
    /\ error_log = <<>> /\ agg_calls = 0 /\ csv_written = <<>>

IdleAgg ==
    /\ a_pc = "idle" /\ a_input = <<>> /\ a_i = 0
    /\ interval_start = NoDateTime /\ current_ohlcv = EmptyBar /\ ohlcv_data = <<>>

IdlePrompt == g_pc = "idle" /\ g_interval_str = <<>>

InitValidate ==
    /\ v_pc = "call"
    /\ v_row \in ValRows
    /\ v_set \in SUBSET ValSeen
    /\ v_set0 = v_set
    /\ v_result = <<None, <<>>>>
    /\ IdleWorkers /\ IdleMain /\ IdleAgg /\ IdlePrompt
    /\ cleaned_data = <<>>
    /\ interval = td_zero /\ start_time = NoDateTime /\ end_time = NoDateTime

\* cleaned_row, errors = clean_and_validate_row(row, unique_timestamps)
ValidateRow ==
    /\ v_pc = "call"
    /\ LET out == clean_and_validate_row(v_row, v_set)
       IN  /\ v_result' = out.ret
           /\ v_set' = out.seen
    /\ v_pc' = "returned"
    /\ UNCHANGED <<v_row, v_set0, workerVars, mergeVars, main_pc, cleaned_data,
                   inputVars, agg_calls, csv_written, aggVars, promptVars>>

NextValidate == ValidateRow

SpecValidate == InitValidate /\ [][NextValidate]_vars

(***************************************************************************)
(* Spec: main.  The pool runs one process_file call per discovered file;   *)
(* the calls interleave row by row.                                        *)
(***************************************************************************)
Init ==
    /\ files \in [Files -> FileContents]
    /\ w_pc = [f \in Files |-> "queued"]
    /\ w_idx = [f \in Files |-> 0]
    /\ unique_timestamps = [f \in Files |-> {}]
    /\ results = [f \in Files |-> <<>>]
    /\ main_pc = "map"
    /\ all_results = <<>>
    /\ total_rows = 0 /\ valid_rows = 0 /\ invalid_rows = 0
    /\ error_log = <<>> /\ cleaned_data = <<>>
    /\ interval = td_zero /\ start_time = NoDateTime /\ end_time = NoDateTime
    /\ agg_calls = 0 /\ csv_written = <<>>
    /\ IdleValidate /\ IdleAgg /\ IdlePrompt

mainVars == <<main_pc, all_results, total_rows, valid_rows, invalid_rows,
              error_log, cleaned_data, interval, start_time, end_time,
              agg_calls, csv_written>>

\* lines 24-25: a worker takes the task and enters process_file
WorkerStart(f) ==
    /\ main_pc = "map" /\ w_pc[f] = "queued"
    /\ w_pc' = [w_pc EXCEPT ![f] = "reading"]
    /\ unique_timestamps' =
           [unique_timestamps EXCEPT ![f] = fresh_timestamps(unique_timestamps)]
    /\ results' = [results EXCEPT ![f] = <<>>]
    /\ UNCHANGED <<files, w_idx, mainVars, validateVars, promptVars, aggVars>>

\* line 16: open() raises in the worker, nothing catches it in process_file
WorkerFail(f) ==
    /\ w_pc[f] = "reading" /\ ~files[f].readable
    /\ w_pc' = [w_pc EXCEPT ![f] = "failed"]
    /\ UNCHANGED <<files, w_idx, unique_timestamps, results, mainVars,
                   validateVars, promptVars, aggVars>>

\* lines 26-28: the next row of the file is validated and its triple appended
WorkerRow(f) ==
    /\ w_pc[f] = "reading" /\ files[f].readable
    /\ w_idx[f] < Len(files[f].rows)
    /\ LET st == process_row([unique_timestamps |-> unique_timestamps[f],
                              results |-> results[f]],
                             files[f].rows[w_idx[f] + 1])
       IN  /\ unique_timestamps' =
                  [unique_timestamps EXCEPT ![f] = st.unique_timestamps]
           /\ results' = [results EXCEPT ![f] = st.results]
    /\ w_idx' = [w_idx EXCEPT ![f] = @ + 1]
    /\ UNCHANGED <<files, w_pc, mainVars, validateVars, promptVars, aggVars>>

\* line 29: the rows are exhausted, process_file returns its list
WorkerReturn(f) ==
    /\ w_pc[f] = "reading" /\ files[f].readable
    /\ w_idx[f] = Len(files[f].rows)
    /\ w_pc' = [w_pc EXCEPT ![f] = "done"]
    /\ UNCHANGED <<files, w_idx, unique_timestamps, results, mainVars,
                   validateVars, promptVars, aggVars>>

\* pool.map handing back a list as soon as one task has returned
pool_map_streaming(pcs) == \E f \in Files : pcs[f] = "done"

\* lines 220-221: pool.map blocks until every task has returned
pool_map_joined(pcs) == \A f \in Files : pcs[f] = "done"

\* line 221: pool.map returns the lists in the order of csv_files once every
\* task has ended, when none of them raised
PoolMapReturn ==
    /\ main_pc = "map"
    /\ pool_map_joined(w_pc)
    /\ all_results' = [i \in 1..Len(csv_files) |-> results[csv_files[i]]]
    /\ main_pc' = "merge"
    /\ UNCHANGED <<workerVars, total_rows, valid_rows, invalid_rows, error_log,
                   cleaned_data, inputVars, agg_calls, csv_written,
                   validateVars, promptVars, aggVars>>

\* line 221: pool.map re-raises in main the exception of a task that failed;
\* main catches nothing, the run ends with a traceback
PoolMapRaise ==
    /\ main_pc = "map"
    /\ \A f \in Files : w_pc[f] \in {"done", "failed"}
    /\ \E f \in Files : w_pc[f] = "failed"
    /\ main_pc' = "crashed"
    /\ UNCHANGED <<workerVars, all_results, total_rows, valid_rows,
                   invalid_rows, error_log, cleaned_data, inputVars, agg_calls,
                   csv_written, validateVars, promptVars, aggVars>>

\* lines 223-243: the counters and lists are built and the counts printed
Merge ==
    /\ main_pc = "merge"
    /\ LET acc == merge(merge_start, all_results)
       IN  /\ total_rows' = acc.total_rows
           /\ valid_rows' = acc.valid_rows
           /\ invalid_rows' = acc.invalid_rows
           /\ error_log' = acc.error_log
           /\ cleaned_data' = acc.cleaned_data
    /\ main_pc' = "interval"
    /\ UNCHANGED <<workerVars, all_results, inputVars, agg_calls, csv_written,
                   validateVars, promptVars, aggVars>>

\* line 253: the prompt is answered; an answer that is refused leaves main at
\* the prompt
GetInterval ==
    /\ main_pc = "interval"
    /\ \E typed \in IntervalTexts :
          LET got == get_interval_input(typed)
          IN  IF got.ok
              THEN interval' = got.v /\ main_pc' = "start"
              ELSE UNCHANGED <<interval, main_pc>>
    /\ UNCHANGED <<workerVars, mergeVars, cleaned_data, start_time, end_time,
                   agg_calls, csv_written, validateVars, promptVars, aggVars>>

\* line 254
GetStart ==
    /\ main_pc = "start"
    /\ \E typed \in DateTexts :
          LET got == get_datetime_input(typed)
          IN  IF got.ok
              THEN start_time' = got.v /\ main_pc' = "end"
              ELSE UNCHANGED <<start_time, main_pc>>
    /\ UNCHANGED <<workerVars, mergeVars, cleaned_data, interval, end_time,
                   agg_calls, csv_written, validateVars, promptVars, aggVars>>

\* line 255
GetEnd ==
    /\ main_pc = "end"
    /\ \E typed \in DateTexts :
          LET got == get_datetime_input(typed)
          IN  IF got.ok
              THEN end_time' = got.v /\ main_pc' = "check"
              ELSE UNCHANGED <<end_time, main_pc>>
    /\ UNCHANGED <<workerVars, mergeVars, cleaned_data, interval, start_time,
                   agg_calls, csv_written, validateVars, promptVars, aggVars>>

\* lines 258-260: "Start time must be before end time." and return
MainAbort ==
    /\ main_pc = "check"
    /\ window_rejected(start_time, end_time)
    /\ main_pc' = "aborted"
    /\ UNCHANGED <<workerVars, mergeVars, cleaned_data, inputVars, agg_calls,
                   csv_written, validateVars, promptVars, aggVars>>

\* line 263: the whole call of aggregate_ohlcv, which sorts main's list in place
MainAggregate ==
    /\ main_pc = "check"
    /\ ~window_rejected(start_time, end_time)
    /\ LET out == aggregate_ohlcv(cleaned_data, interval, start_time, end_time)
       IN  /\ ohlcv_data' = out.ohlcv_data
           /\ cleaned_data' = out.data
    /\ agg_calls' = agg_calls + 1
    /\ main_pc' = "write"
    /\ UNCHANGED <<workerVars, mergeVars, inputVars, csv_written, validateVars,
                   promptVars, a_pc, a_input, a_i, interval_start,
                   current_ohlcv>>

\* lines 266-268
MainWrite ==
    /\ main_pc = "write"
    /\ csv_written' = ohlcv_to_csv(ohlcv_data)
    /\ main_pc' = "done"
    /\ UNCHANGED <<workerVars, mergeVars, cleaned_data, inputVars, agg_calls,
                   validateVars, promptVars, aggVars>>

Next ==
    \/ \E f \in Files : WorkerStart(f)
    \/ \E f \in Files : WorkerFail(f)
    \/ \E f \in Files : WorkerRow(f)
    \/ \E f \in Files : WorkerReturn(f)
    \/ PoolMapReturn
    \/ PoolMapRaise
    \/ Merge
    \/ GetInterval
    \/ GetStart
    \/ GetEnd
    \/ MainAbort
    \/ MainAggregate
    \/ MainWrite

Spec == Init /\ [][Next]_vars

(***************************************************************************)
(* SpecAgg: aggregate_ohlcv one loop turn at a time, on any list of        *)
(* records the validator returns and any interval and window main can      *)
(* pass                                                                    *)
(***************************************************************************)
AggRows ==
    { <<TS_093005, P_100, S_1>>,
      <<TS_093050, P_105, S_2>>,
      <<TS_093110, P_102, S_3>>,
      <<TS_093200, P_150_25, S_10>>,
      <<TS_093300, P_151_00, S_5>>,
      <<TS_093000_BARE, P_150_25, S_5>>,
      <<TS_093005, P_NAN, S_2>> }

\* the records clean_and_validate_row returns for them
AggClean == {clean_and_validate_row(r, {}).ret[1] : r \in AggRows} \ {None}

AggIntervalTexts == {I_1M, I_NEG1M, I_2H30M}
AggIntervals ==
    {get_interval_input(t).v : t \in {x \in AggIntervalTexts : get_interval_input(x).ok}}

IN_093100 == DATE_PAD \o <<"0", "9", ":", "3", "1", ":", "0", "0">>
AggDateTexts == {IN_093000, IN_093100, IN_093200}
AggTimes ==
    {get_datetime_input(t).v : t \in {x \in AggDateTexts : get_datetime_input(x).ok}}

InitAgg ==
    /\ cleaned_data \in SeqsUpTo(AggClean, MaxData)
    /\ a_input = cleaned_data
    /\ interval \in AggIntervals
    /\ start_time \in AggTimes
    /\ end_time \in AggTimes
    /\ ~window_rejected(start_time, end_time)
    /\ a_pc = "enter"
    /\ a_i = 0
    /\ interval_start = NoDateTime /\ current_ohlcv = EmptyBar /\ ohlcv_data = <<>>
    /\ IdleValidate /\ IdleWorkers /\ IdleMain /\ IdlePrompt

aggFrame == <<validateVars, promptVars, workerVars, mergeVars, main_pc, inputVars,
              agg_calls, csv_written, a_input>>

\* lines 112-118: the locals are set and the caller's list sorted in place
AggEnter ==
    /\ a_pc = "enter"
    /\ interval_start' = loop_start.interval_start
    /\ current_ohlcv' = loop_start.current_ohlcv
    /\ ohlcv_data' = loop_start.ohlcv_data
    /\ cleaned_data' = sort_by_timestamp(cleaned_data)
    /\ a_i' = 1
    /\ a_pc' = "loop"
    /\ UNCHANGED aggFrame

\* lines 120-142: one turn of the for loop
AggRecord ==
    /\ a_pc = "loop" /\ a_i <= Len(cleaned_data)
    /\ LET st == loop_body([interval_start |-> interval_start,
                            current_ohlcv |-> current_ohlcv,
                            ohlcv_data |-> ohlcv_data],
                           cleaned_data[a_i], interval, start_time, end_time)
       IN  /\ interval_start' = st.interval_start
           /\ current_ohlcv' = st.current_ohlcv
           /\ ohlcv_data' = st.ohlcv_data
    /\ a_i' = a_i + 1
    /\ UNCHANGED <<aggFrame, cleaned_data, a_pc>>

\* lines 174-178: the last interval is saved and the table returned
AggReturn ==
    /\ a_pc = "loop" /\ a_i > Len(cleaned_data)
    /\ ohlcv_data' = final_table([interval_start |-> interval_start,
                                  current_ohlcv |-> current_ohlcv,
                                  ohlcv_data |-> ohlcv_data])
    /\ a_pc' = "returned"
    /\ UNCHANGED <<aggFrame, cleaned_data, a_i, interval_start, current_ohlcv>>

NextAgg == AggEnter \/ AggRecord \/ AggReturn

SpecAgg == InitAgg /\ [][NextAgg]_vars

(***************************************************************************)
(* SpecInterval: the prompt of get_interval_input, one turn of its loop at *)
(* a time, on any short text over the characters below                     *)
(***************************************************************************)
IntervalChars == {"0", "1", "d", "h", "m", "s", "-", "a"}

IntervalStrings ==
    SeqsUpTo(IntervalChars, MaxIntervalLen)
    \cup {I_1M, I_0S, I_NEG1M, I_2H30M, I_ABC, I_XM, I_1M_UPPER}

\* what the prompt is answered with after "Please try again."
RetryTexts == {I_1M, I_0S, I_2H30M, I_XM, I_1M_UPPER}

InitInterval ==
    /\ g_pc = "input"
    /\ g_interval_str \in IntervalStrings
    /\ interval = td_zero /\ start_time = NoDateTime /\ end_time = NoDateTime
    /\ cleaned_data = <<>>
    /\ IdleValidate /\ IdleWorkers /\ IdleMain /\ IdleAgg

promptFrame == <<validateVars, workerVars, mergeVars, main_pc, cleaned_data,
                 start_time, end_time, agg_calls, csv_written, aggVars>>

\* lines 193-201, the text being parsed to a duration that is not zero:
\* return interval
IntervalReturn ==
    /\ g_pc = "input"
    /\ get_interval_input(g_interval_str).ok
    /\ interval' = get_interval_input(g_interval_str).v
    /\ g_pc' = "returned"
    /\ UNCHANGED <<promptFrame, g_interval_str>>

\* lines 202-203: ValueError, "Invalid interval format. Please try again."
IntervalInvalid ==
    /\ g_pc = "input"
    /\ ~get_interval_input(g_interval_str).ok
    /\ g_pc' = "invalid"
    /\ UNCHANGED <<promptFrame, g_interval_str, interval>>

\* line 192-193: the loop asks again
IntervalAgain ==
    /\ g_pc = "invalid"
    /\ g_interval_str' \in RetryTexts
    /\ g_pc' = "input"
    /\ UNCHANGED <<promptFrame, interval>>

NextInterval == IntervalReturn \/ IntervalInvalid \/ IntervalAgain

SpecInterval == InitInterval /\ [][NextInterval]_vars

(***************************************************************************)
(* Properties of clean_and_validate_row (checked under SpecValidate)       *)
(***************************************************************************)
Returned == v_pc = "returned"
v_cleaned == v_result[1]
v_errors == v_result[2]

\* C1: the call returns either (a clean record, no error) or (None, exactly
\* one error): never a record with errors, never None without an error,
\* never more than one error.
C1_RecordXorOneError ==
    Returned =>
        \/ v_cleaned # None /\ v_errors = <<>>
        \/ v_cleaned = None /\ Len(v_errors) = 1

\* C1 witness: a price that is both non-positive and below the floor has
\* been rejected, with the one error of the first of the two checks.
C1_Witness ==
    /\ Returned /\ Len(v_row) = 3 /\ v_row[2] = P_NEG5
    /\ v_cleaned = None /\ v_errors = <<E_PRICE_POSITIVE>>

\* The nine checks in the order of the claim, each as the condition under
\* which it fails.  A check is only applied to a row that has the field it
\* reads: checks 2-9 to rows of three columns, checks 6-7 to a price that
\* parses, check 9 to a size that parses.
C4_ChecksOf(row, seen, ts, pr, sz) ==
    << <<Len(row) # 3, E_COLUMNS>>,
       <<Len(row) = 3 /\ row[1] = <<>>, E_MISSING_TS>>,
       <<Len(row) = 3 /\ ~ts.ok, E_TS_FORMAT>>,
       <<Len(row) = 3 /\ row[1] \in seen, E_DUPLICATE>>,
       <<Len(row) = 3 /\ ~pr.ok, E_PRICE_VALUE>>,
       <<Len(row) = 3 /\ pr.ok /\ f_le(pr.v, lit(0)), E_PRICE_POSITIVE>>,
       <<Len(row) = 3 /\ pr.ok /\ f_lt(pr.v, lit(PRICE_FLOOR)), E_PRICE_LOW>>,
       <<Len(row) = 3 /\ ~sz.ok, E_SIZE_VALUE>>,
       <<Len(row) = 3 /\ sz.ok /\ sz.v < 0, E_SIZE_NEGATIVE>> >>

Field(row, i) == IF i <= Len(row) THEN row[i] ELSE <<>>

C4_Checks(row, seen) ==
    C4_ChecksOf(row, seen, strptime(Field(row, 1), FMT_TICK),
                float(Field(row, 2)), int(Field(row, 3)))

C4_Failing(row, seen) == {k \in 1..9 : C4_Checks(row, seen)[k][1]}

C4_First(row, seen) ==
    CHOOSE k \in C4_Failing(row, seen) : \A j \in C4_Failing(row, seen) : k <= j

C5_PriceAtLeastFloor ==
    Returned =>
        /\ v_cleaned # None =>
              /\ f_le(lit(PRICE_FLOOR), v_cleaned[2])
              /\ v_cleaned[3] >= 0
        /\ ( /\ Len(v_row) = 3 /\ v_row[1] \in ValSeen \ v_set0
             /\ float(v_row[2]).ok /\ float(v_row[2]).v = lit(PRICE_FLOOR)
             /\ int(v_row[3]).ok /\ int(v_row[3]).v >= 0 )
           => v_cleaned # None
        /\ v_errors = <<E_PRICE_LOW>> =>
              /\ f_lt(lit(0), float(v_row[2]).v)
              /\ f_lt(float(v_row[2]).v, lit(PRICE_FLOOR))

\* C18: the call changes the duplicate set only by inserting the row's own
\* timestamp, and it does so exactly when checks 1-4 pass: a row rejected for
\* its column count, a missing timestamp, a bad format or a duplicate leaves
\* the set as it was; a row that passes the duplicate check adds its
\* timestamp even when a price or size check then rejects it, so that a later
\* row with that timestamp is rejected as a duplicate although no record
\* with that timestamp was returned.
C18_SetChangedOnlyByInsert ==
    Returned =>
        /\ v_errors \in {<<E_COLUMNS>>, <<E_MISSING_TS>>, <<E_TS_FORMAT>>,
                          <<E_DUPLICATE>>}
              => v_set = v_set0
        /\ v_errors \notin {<<E_COLUMNS>>, <<E_MISSING_TS>>, <<E_TS_FORMAT>>,
                             <<E_DUPLICATE>>}
              => /\ v_row[1] \notin v_set0
                 /\ v_set = v_set0 \cup {v_row[1]}
                 /\ clean_and_validate_row(<<v_row[1], P_150_25, S_10>>, v_set)
                        = [ret |-> <<None, <<E_DUPLICATE>>>>, seen |-> v_set]

\* C18 witness: a row with a new timestamp and a price that is no number has
\* been rejected, and its timestamp is in the set.
C18_Witness ==
    /\ Returned
    /\ v_cleaned = None /\ v_errors = <<E_PRICE_VALUE>>
    /\ v_row[1] \notin v_set0 /\ v_row[1] \in v_set

RECURSIVE C3_Alone(_, _)
C3_Alone(rows, n) ==
    IF n = 0 THEN [unique_timestamps |-> {}, results |-> <<>>]
    ELSE process_row(C3_Alone(rows, n - 1), rows[n])

\* C3: under every interleaving of the workers, the set and the results of a
\* file's pass are those of that file processed alone from an empty set (the
\* outcome of a row depends only on the earlier rows of its own file), and a
\* timestamp that two files both start with is accepted in both.
C3_DuplicateScopePerFile ==
    /\ \A f \in Files :
          w_pc[f] \in {"reading", "done"} =>
              /\ results[f] = C3_Alone(files[f].rows, w_idx[f]).results
              /\ unique_timestamps[f] =
                     C3_Alone(files[f].rows, w_idx[f]).unique_timestamps
    /\ \A f, g \in Files :
          ( /\ f # g /\ w_idx[f] >= 1 /\ w_idx[g] >= 1
            /\ files[f].rows[1] = <<TS_093005, P_150_25, S_10>>
            /\ files[g].rows[1][1] = TS_093005 /\ files[g].rows[1][2] # P_ABC )
          => results[f][1][1] # None /\ results[g][1][1] # None

\* C3 witness: both passes have ended and both accepted a record with the
\* same timestamp.
C3_Witness ==
    /\ \A f \in Files : w_pc[f] = "done" /\ Len(results[f]) >= 1
    /\ \A f \in Files : results[f][1][1] # None
    /\ \A f, g \in Files : results[f][1][1][1] = results[g][1][1][1]

\* C9: when start_time >= end_time neither aggregate_ohlcv nor ohlcv_to_csv
\* is ever invoked and main ends aborted; the output is written only when
\* start_time < end_time, and only after the aggregation.
C9_AbortBeforeAggregation ==
    /\ dt_le(end_time, start_time) => agg_calls = 0 /\ csv_written = <<>>
    /\ main_pc \in {"write", "done"} =>
           dt_lt(start_time, end_time) /\ agg_calls = 1
    /\ csv_written # <<>> =>
           /\ dt_lt(start_time, end_time) /\ agg_calls = 1
           /\ csv_written = ohlcv_to_csv(ohlcv_data)
    /\ main_pc = "aborted" => dt_le(end_time, start_time)

\* C9 witness: both prompts were answered with the same instant and main
\* has returned without aggregating or writing.
C9_Witness ==
    /\ main_pc = "aborted"
    /\ start_time # NoDateTime /\ start_time = end_time
    /\ agg_calls = 0 /\ csv_written = <<>>

\* what the merge gives on the lists of the files, each processed alone, taken
\* in the order of the discovered file list
C11_Expected ==
    merge(merge_start,
          [i \in 1..Len(csv_files) |->
              C3_Alone(files[csv_files[i]].rows,
                       Len(files[csv_files[i]].rows)).results])

C11_MergedIs(acc, data) ==
    /\ total_rows = acc.total_rows
    /\ valid_rows = acc.valid_rows
    /\ invalid_rows = acc.invalid_rows
    /\ error_log = acc.error_log
    /\ cleaned_data = data

\* C11: nothing is folded while a worker is still running, the merge starts
\* only when every worker has returned its list, and the counters, the order
\* of cleaned_data and of error_log are those given by the order of the file
\* list and the row order inside each file, whatever the order in which the
\* workers ran and ended.
C11_BarrierAndDeterminism ==
    /\ main_pc \in {"map", "crashed"} =>
           /\ all_results = <<>>
           /\ C11_MergedIs(merge_start, <<>>)
    /\ main_pc \notin {"map", "crashed"} =>
           /\ \A f \in Files : w_pc[f] = "done"
           /\ \A i \in 1..Len(csv_files) :
                  all_results[i] =
                      C3_Alone(files[csv_files[i]].rows,
                               Len(files[csv_files[i]].rows)).results
    /\ main_pc \in {"interval", "start", "end", "check", "aborted"} =>
           C11_MergedIs(C11_Expected, C11_Expected.cleaned_data)
    /\ main_pc \in {"write", "done"} =>
           C11_MergedIs(C11_Expected,
                        sort_by_timestamp(C11_Expected.cleaned_data))

\* C11 witness: the merge has run on two files that both hold accepted and
\* rejected rows, and the records and the errors of the first file stand
\* before those of the second.
C11_Witness ==
    /\ main_pc = "interval"
    /\ \A f \in Files : Len(files[f].rows) = 2
    /\ files[csv_files[1]].rows # files[csv_files[2]].rows
    /\ valid_rows = 2 /\ invalid_rows = 2
    /\ cleaned_data = <<results[csv_files[1]][1][1], results[csv_files[2]][1][1]>>
    /\ error_log[1][1] = files[csv_files[1]].rows[2]
    /\ error_log[2][1] = files[csv_files[2]].rows[2]

\* C10: the failure of one file's pass does not end the run: main never ends
\* on the exception of a worker, it goes on to the merge.
C10_FileFailureIsolated ==
    (\E f \in Files : w_pc[f] = "failed") => main_pc # "crashed"

\* C19: every duration get_interval_input returns to main, and so every
\* interval main passes to aggregate_ohlcv, is strictly positive: greater
\* than zero, not only different from zero.
C19_IntervalStrictlyPositive ==
    /\ main_pc \in {"start", "end", "check", "aborted", "write", "done"} =>
           dt_lt(td_zero, interval)
    /\ agg_calls > 0 => dt_lt(td_zero, interval)

\* the number of data rows of the files, added up in the order of the list
RECURSIVE C20_RowsOf(_)
C20_RowsOf(paths) ==
    IF paths = <<>> THEN 0
    ELSE Len(files[Head(paths)].rows) + C20_RowsOf(Tail(paths))

\* C20: a row that is rejected never ends the pass of its file and no row is
\* lost or doubled: process_file holds one (cleaned or None, errors, raw row)
\* triple per row consumed, in file order, and returns one per data row; and
\* after the merge total_rows = valid_rows + invalid_rows = the number of
\* data rows of all files, valid_rows = len(cleaned_data) and invalid_rows =
\* len(error_log).
C20_OneTriplePerRow ==
    /\ \A f \in Files :
           /\ w_pc[f] = "failed" => ~files[f].readable
           /\ w_pc[f] \in {"reading", "done"} =>
                  /\ Len(results[f]) = w_idx[f]
                  /\ \A i \in 1..Len(results[f]) :
                         /\ results[f][i][3] = files[f].rows[i]
                         /\ results[f][i][1] = None <=> results[f][i][2] # <<>>
           /\ w_pc[f] = "done" => Len(results[f]) = Len(files[f].rows)
    /\ main_pc \in {"interval", "start", "end", "check", "aborted", "write",
                     "done"} =>
           /\ total_rows = valid_rows + invalid_rows
           /\ total_rows = C20_RowsOf(csv_files)
           /\ valid_rows = Len(cleaned_data)
           /\ invalid_rows = Len(error_log)

\* C20 witness: the merge has counted the rows of two files both of which
\* hold a row that was rejected and a row that was accepted.
C20_Witness ==
    /\ main_pc = "interval"
    /\ total_rows = 4 /\ valid_rows = 2 /\ invalid_rows = 2
    /\ \A f \in Files :
           /\ Len(results[f]) = 2
           /\ results[f][1][1] = None
           /\ results[f][2][1] # None

(***************************************************************************)
(* Properties of aggregate_ohlcv (checked under SpecAgg)                   *)
(***************************************************************************)
AggReturned == a_pc = "returned"

rec_time(rec) == strptime(rec[1], FMT_TICK).v

\* the records of the list passed in that lie in [start_time, end_time]
InWindow ==
    {i \in 1..Len(a_input) :
        /\ dt_le(start_time, rec_time(a_input[i]))
        /\ dt_le(rec_time(a_input[i]), end_time)}

\* those of them in the span [key, key + interval)
InSpan(key) ==
    {i \in InWindow :
        /\ dt_le(key, rec_time(a_input[i]))
        /\ dt_lt(rec_time(a_input[i]), dt_add(key, interval))}

IsMaxOf(x, prices) == x \in prices /\ \A p \in prices : f_le(p, x)
IsMinOf(x, prices) == x \in prices /\ \A p \in prices : f_le(x, p)

\* C6: in the table returned, high is the maximum and low the minimum of the
\* prices of exactly the in-window records with key <= t < key + interval,
\* and no bar keeps the -infinity / +infinity it started from.
C6_HighLowOfSpan ==
    AggReturned =>
        \A k \in 1..Len(ohlcv_data) :
            /\ IsMaxOf(ohlcv_data[k][2].high,
                       {a_input[i][2] : i \in InSpan(ohlcv_data[k][1])})
            /\ IsMinOf(ohlcv_data[k][2].low,
                       {a_input[i][2] : i \in InSpan(ohlcv_data[k][1])})
            /\ ohlcv_data[k][2].high # NegInf
            /\ ohlcv_data[k][2].low # PosInf

IsEarliest(t, times) == t \in times /\ \A u \in times : dt_le(t, u)

SCENARIO_B ==
    { <<TS_093005, Fin(10000), 1>>, <<TS_093050, Fin(10500), 2>>,
      <<TS_093110, Fin(10200), 3>> }

SCENARIO_B_TABLE ==
    << <<rec_time(<<TS_093005>>),
         [open |-> Fin(10000), high |-> Fin(10500), low |-> Fin(10000),
          close |-> Fin(10500), volume |-> 3]>>,
       <<rec_time(<<TS_093110>>),
         [open |-> Fin(10200), high |-> Fin(10200), low |-> Fin(10200),
          close |-> Fin(10200), volume |-> 3]>> >>

\* C7: the first key is the timestamp of the earliest in-window record, every
\* later key the timestamp of the earliest in-window record at or after the
\* previous key + interval; and interval 1m, window [09:30:00, 09:32:00],
\* records 09:30:05 (100,1), 09:30:50 (105,2), 09:31:10 (102,3) give exactly
\* {09:30:05 -> 100/105/100/105/3, 09:31:10 -> 102/102/102/102/3}.
C7_AnchoredToData ==
    AggReturned =>
        /\ InWindow # {} =>
              /\ Len(ohlcv_data) >= 1
              /\ IsEarliest(ohlcv_data[1][1],
                            {rec_time(a_input[i]) : i \in InWindow})
        /\ \A k \in 2..Len(ohlcv_data) :
              IsEarliest(ohlcv_data[k][1],
                         {rec_time(a_input[i]) : i \in
                             {j \in InWindow :
                                 dt_le(dt_add(ohlcv_data[k - 1][1], interval),
                                       rec_time(a_input[j]))}})
        /\ ( /\ Len(a_input) = 3
             /\ {a_input[i] : i \in 1..3} = SCENARIO_B
             /\ interval = parse_interval(I_1M).v
             /\ start_time = strptime(IN_093000, FMT_INPUT).v
             /\ end_time = strptime(IN_093200, FMT_INPUT).v )
           => ohlcv_data = SCENARIO_B_TABLE

\* the volumes of the bars of a table, added up
RECURSIVE TableVolume(_)
TableVolume(table) ==
    IF table = <<>> THEN 0
    ELSE table[1][2].volume + TableVolume(Tail(table))

\* the sizes of the records of a list that lie in [start, end], added up
RECURSIVE WindowSize(_, _, _)
WindowSize(data, start, end) ==
    IF data = <<>> THEN 0
    ELSE (IF dt_le(start, rec_time(data[1])) /\ dt_le(rec_time(data[1]), end)
          THEN data[1][3] ELSE 0)
         + WindowSize(Tail(data), start, end)

\* C8: exactly the records with start_time <= t <= end_time are counted, each
\* in one bar: the volumes of the bars add up to the sizes of the in-window
\* records (a record at end_time included).
C8_VolumeOfWindow ==
    AggReturned =>
        TableVolume(ohlcv_data) = WindowSize(a_input, start_time, end_time)
RECURSIVE SizeOf(_)
SizeOf(J) ==
    IF J = {} THEN 0
    ELSE LET i == CHOOSE x \in J : TRUE
         IN  a_input[i][3] + SizeOf(J \ {i})

\* bar is made of one in-window record or more: its open and close are the
\* prices of records among them and its volume the sum of their sizes
MadeOfRecords(bar) ==
    \E J \in SUBSET InWindow :
        /\ J # {}
        /\ bar.volume = SizeOf(J)
        /\ \E i \in J : bar.open = a_input[i][2]
        /\ \E i \in J : bar.close = a_input[i][2]

\* C13: the table returned is empty when the list is empty or no record lies
\* in the window; every bar of a returned table has received at least one
\* record (open and close are not None, the volume is the sum of the sizes of
\* one in-window record or more), and every key is the timestamp of an
\* in-window record, so no interval without records appears.
C13_NoEmptyBar ==
    AggReturned =>
        /\ InWindow = {} => ohlcv_data = <<>>
        /\ \A k \in 1..Len(ohlcv_data) :
               /\ ohlcv_data[k][2].open # NoneF
               /\ ohlcv_data[k][2].close # NoneF
               /\ MadeOfRecords(ohlcv_data[k][2])
               /\ \E i \in InWindow : rec_time(a_input[i]) = ohlcv_data[k][1]

\* C13 witness: the call has returned an empty table on a list of records
\* none of which lies in the window.
C13_Witness ==
    /\ AggReturned
    /\ Len(a_input) >= 2
    /\ InWindow = {}
    /\ ohlcv_data = <<>>
\* the keys of the table stand in increasing order, each at least one
\* interval after the one before it; a window narrower than one interval has
\* given at most one bar
C15_KeyOrder ==
    /\ \A k \in 2..Len(ohlcv_data) :
           /\ dt_lt(ohlcv_data[k - 1][1], ohlcv_data[k][1])
           /\ dt_le(dt_add(ohlcv_data[k - 1][1], interval), ohlcv_data[k][1])
    /\ (AggReturned /\ dt_lt(end_time, dt_add(start_time, interval)))
           => Len(ohlcv_data) <= 1

\* a step that writes to the table adds an entry at its end: it puts nothing
\* under a key that is there
C15_WritesNewKey ==
    \/ ohlcv_data' = ohlcv_data
    \/ /\ Len(ohlcv_data') = Len(ohlcv_data) + 1
       /\ \A k \in 1..Len(ohlcv_data) : ohlcv_data'[k][1] = ohlcv_data[k][1]
       /\ \A k \in 1..Len(ohlcv_data) :
              ohlcv_data'[Len(ohlcv_data')][1] # ohlcv_data[k][1]

\* C15: the keys of the table, in insertion order, are strictly increasing in
\* time and consecutive keys differ by at least the interval, so the spans of
\* the bars do not overlap; no key is written twice; a window narrower than
\* one interval yields at most one bar.  For every list of records the
\* validator accepts, in any order.
C15_KeysStrictlyIncreasing == [](C15_KeyOrder) /\ [][C15_WritesNewKey]_vars

\* record i of the list passed in is the first of the set J of records:
\* the earliest in time and, among those of that time, the first in the list
IsFirstOf(i, J) ==
    /\ i \in J
    /\ \A j \in J :
           \/ dt_lt(rec_time(a_input[i]), rec_time(a_input[j]))
           \/ rec_time(a_input[i]) = rec_time(a_input[j]) /\ i <= j

\* the last of J: the latest in time and, among those, the last in the list
IsLastOf(i, J) ==
    /\ i \in J
    /\ \A j \in J :
           \/ dt_lt(rec_time(a_input[j]), rec_time(a_input[i]))
           \/ rec_time(a_input[i]) = rec_time(a_input[j]) /\ j <= i

\* C16: for every bar returned, open is the price of the chronologically
\* first and close the price of the chronologically last in-window record of
\* the bar's span, records of one time being taken in the order of the input
\* list (close is the price of the one that came last in the input).
C16_OpenFirstCloseLast ==
    AggReturned =>
        \A k \in 1..Len(ohlcv_data) :
            /\ \E i \in InSpan(ohlcv_data[k][1]) :
                   /\ IsFirstOf(i, InSpan(ohlcv_data[k][1]))
                   /\ ohlcv_data[k][2].open = a_input[i][2]
            /\ \E i \in InSpan(ohlcv_data[k][1]) :
                   /\ IsLastOf(i, InSpan(ohlcv_data[k][1]))
                   /\ ohlcv_data[k][2].close = a_input[i][2]

\* every entry of the table is after the step what it was before it, under
\* the same key and at the same place
C17_EntriesKept ==
    /\ Len(ohlcv_data') >= Len(ohlcv_data)
    /\ \A k \in 1..Len(ohlcv_data) : ohlcv_data'[k] = ohlcv_data[k]

\* C17: once a bar is sealed into the table under its interval start, neither
\* its open/high/low/close/volume nor its key changes in the rest of the
\* aggregation: a later record updates only the open bar and no later seal
\* overwrites a key that is there.
C17_SealedBarsImmutable == [][C17_EntriesKept]_vars

(***************************************************************************)
(* Properties of parse_interval and get_interval_input (checked under      *)
(* SpecInterval)                                                           *)
(***************************************************************************)
\* one component of an interval text: an integer immediately followed by the
\* unit letter, at the head of the pieces pc; v = 0 and rest = pc when the
\* component is left out
C14_Take(pc, unit) ==
    IF Len(pc) >= 2 /\ is_number(pc, 1, 1, 9) /\ pc[2] = <<unit>>
    THEN [v |-> DecVal(pc[1]), rest |-> SubSeq(pc, 3, Len(pc))]
    ELSE IF /\ Len(pc) >= 3 /\ pc[1] \in {<<"-">>, <<"+">>}
            /\ is_number(pc, 2, 1, 9) /\ pc[3] = <<unit>>
    THEN [v |-> IF pc[1] = <<"-">> THEN -DecVal(pc[2]) ELSE DecVal(pc[2]),
          rest |-> SubSeq(pc, 4, Len(pc))]
    ELSE [v |-> 0, rest |-> pc]

C14_Fields(d, h, m, s) ==
    [ok |-> s.rest = <<>>, v |-> timedelta(d.v, h.v, m.v, s.v)]

C14_FromMinutes(d, h, m) == C14_Fields(d, h, m, C14_Take(m.rest, "s"))
C14_FromHours(d, h) == C14_FromMinutes(d, h, C14_Take(h.rest, "m"))
C14_FromDays(d) == C14_FromHours(d, C14_Take(d.rest, "h"))

\* the text read as day, hour, minute and second components, each optional,
\* in that order and with nothing else: ok says whether the text is one,
\* v is the duration it stands for
C14_Grammar(text) == C14_FromDays(C14_Take(pieces(text, 1), "d"))

C14_Typed == C14_Grammar(lower(strip(g_interval_str)))

\* C14: a text of optional day/hour/minute/second components in that order is
\* mapped to the duration it stands for ("2h30m" to 2 hours 30 minutes), and
\* get_interval_input returns only on such a text with a duration that is
\* not zero: it turns down every text that is not parseable and every text
\* that gives a zero duration, such as "0s".
C14_IntervalParsedOrRejected ==
    /\ parse_interval(I_2H30M) = [ok |-> TRUE, v |-> timedelta(0, 2, 30, 0)]
    /\ g_pc = "returned" =>
           /\ C14_Typed.ok
           /\ interval = C14_Typed.v
           /\ interval # td_zero
    /\ g_pc = "invalid" => (~C14_Typed.ok \/ C14_Typed.v = td_zero)

====
